---------------------------- MODULE Spec2Model ----------------------------
(***************************************************************************)
(* A model of pyar3/sto.py: the result-report parser (STOMetaData,         *)
(* STOMissionResult, STOStudyResults), the STOIndicator constructor and    *)
(* the IDF/MDF generators of STOStudy.                                     *)
(*                                                                         *)
(* A report is a sequence of lines; a line is the sequence of fields that  *)
(* line.split(sep) returns for the tab delimiter (the default of every     *)
(* from_raw_lines), so a line always has at least one field and the last   *)
(* field carries the line's end-of-line character.  Fields are strings of  *)
(* a finite alphabet; the string operations of the code (strip, float,     *)
(* int) are tables over that alphabet.                                     *)
(*                                                                         *)
(* Python's None is the empty sequence and a set value x is <<x>>.  A      *)
(* float is a record [nan, v] with v in thousandths, an int is an Int.     *)
(***************************************************************************)
EXTENDS Integers, Sequences, FiniteSets, TLC

VARIABLES
    layout,      \* how the report under parse was assembled (its sections)
    raw_lines,   \* from_raw_lines: raw_lines
    pc,          \* position in the operation under way
    meta_data,   \* from_raw_lines: cls_specs["meta_data"]
    mission,     \* from_raw_lines: cls_specs["mission"]
    indicators,  \* from_raw_lines: cls_specs["indicators"]
    result,      \* from_raw_lines: the STOStudyResults returned, None before
    kwargs,      \* the keyword arguments of the last call:
                 \* STOIndicator(**kwargs), to_mdf(result_filename=...)
    indic,       \* the STOIndicator constructed from kwargs
    study,       \* the STOStudy whose IDF and MDF are generated
    idf,         \* the document written by to_idf
    mdf          \* the document written by to_mdf

vars == <<layout, raw_lines, pc, meta_data, mission, indicators, result,
          kwargs, indic, study, idf, mdf>>

-----------------------------------------------------------------------------
(* Values *)

None == <<>>
Some(x) == <<x>>
IsNone(o) == o = <<>>
Val(o) == o[1]

NaN == [nan |-> TRUE, v |-> 0]
Float(milli) == [nan |-> FALSE, v |-> milli]

SetMin(S) == CHOOSE x \in S : \A y \in S : x <= y
SetMax(S) == CHOOSE x \in S : \A y \in S : x >= y

\* s[n:] of Python, n >= 0
Drop(s, n) == SubSeq(s, n + 1, Len(s))

-----------------------------------------------------------------------------
(* Strings: str.strip, int(), float() over the field alphabet *)

\* str.lstrip / str.rstrip: the padded fields of the alphabet and their
\* stripped forms; a field of blanks only strips to the empty string
LStrip(t) ==
    CASE t = " ind1" -> "ind1"
      [] t = " Indicator" -> "Indicator"
      [] t = " 0.0" -> "0.0"
      [] t = " " -> ""
      [] OTHER -> t

RStrip(t) ==
    CASE t = "Indicators " -> "Indicators"
      [] t = "BlockA " -> "BlockA"
      [] t = "ind2 " -> "ind2"
      [] t = " " -> ""
      [] OTHER -> t

Strip(t) == RStrip(LStrip(t))

\* the integer literals of the alphabet: int(t) raises ValueError on any
\* other field ("5.0", "", "abc")
IntLiterals == {"0", "1", "3", "4", "25", "40", "100", "1234", "-1"}

IntOf(t) ==
    CASE t = "0" -> 0
      [] t = "1" -> 1
      [] t = "3" -> 3
      [] t = "4" -> 4
      [] t = "25" -> 25
      [] t = "40" -> 40
      [] t = "100" -> 100
      [] t = "1234" -> 1234
      [] t = "-1" -> -1

\* the decimal literals of the alphabet, in thousandths
DecLiterals == {"0.0", "1.0", "2.0", "5.0", "2.5", "12.5", "1000.0"}

MilliOf(t) ==
    CASE t = "0.0" -> 0
      [] t = "1.0" -> 1000
      [] t = "2.0" -> 2000
      [] t = "5.0" -> 5000
      [] t = "2.5" -> 2500
      [] t = "12.5" -> 12500
      [] t = "1000.0" -> 1000000

\* int(t) succeeds; int() ignores surrounding blanks
IsInt(t) == Strip(t) \in IntLiterals
ToInt(t) == IntOf(Strip(t))

\* is_float(value): float(value) succeeds
is_float(t) == Strip(t) \in (IntLiterals \cup DecLiterals)

\* float(t)
ToFloat(t) ==
    IF Strip(t) \in IntLiterals THEN Float(1000 * IntOf(Strip(t)))
    ELSE Float(MilliOf(Strip(t)))

\* line.strip().split("\t"): the blank fields at both ends go with their
\* tabs, the first remaining field is left-stripped and the last one
\* right-stripped; a line of blanks only is the single empty field
StripSplit(line) ==
    LET keep == {i \in 1..Len(line) : Strip(line[i]) # ""}
    IN  IF keep = {} THEN <<"">>
        ELSE LET lo == SetMin(keep)
                 hi == SetMax(keep)
             IN  [i \in 1..(hi - lo + 1) |->
                    LET t == line[lo + i - 1]
                        l == IF i = 1 THEN LStrip(t) ELSE t
                    IN  IF i = hi - lo + 1 THEN RStrip(l) ELSE l]

-----------------------------------------------------------------------------
(* Section locator *)

\* SectionStart with start initialised to 0 in place of len(raw_lines)
SectionStart_FromTop(lines, marker, offset) ==
    LET hits == {i \in 1..Len(lines) : Strip(lines[i][1]) = marker}
    IN  IF hits = {} THEN 0 ELSE SetMin(hits) - 1 + offset

\* the loop that opens each from_raw_lines: the index after the first line
\* whose stripped first field is the marker, plus offset - 1; len(raw_lines)
\* when no line has it
SectionStart(lines, marker, offset) ==
    LET hits == {i \in 1..Len(lines) : Strip(lines[i][1]) = marker}
    IN  IF hits = {} THEN Len(lines) ELSE SetMin(hits) - 1 + offset

-----------------------------------------------------------------------------
(* STOMetaData.from_raw_lines *)

STOMetaDataDefault ==
    [main_block |-> None, source_file |-> None,
     tool_version |-> None, compiler_version |-> None]

MetaAssign(specs, key, value) ==
    CASE key = "Source file" -> [specs EXCEPT !.source_file = Some(value)]
      [] key = "Main block" -> [specs EXCEPT !.main_block = Some(value)]
      [] key = "Tool version" -> [specs EXCEPT !.tool_version = Some(value)]
      [] key = "Compiler version" ->
            [specs EXCEPT !.compiler_version = Some(value)]
      [] OTHER -> specs

\* MetaScan ending at the first line whose key is not one of the four
RECURSIVE MetaScan_StopsAtUnknownKey(_, _, _)
MetaScan_StopsAtUnknownKey(lines, i, specs) ==
    IF i > Len(lines) THEN specs
    ELSE IF Len(lines[i]) <= 1 THEN specs
    ELSE IF Strip(lines[i][1]) \notin {"Source file", "Main block",
                                       "Tool version", "Compiler version"}
    THEN specs
    ELSE MetaScan_StopsAtUnknownKey(lines, i + 1,
            MetaAssign(specs, Strip(lines[i][1]), Strip(lines[i][2])))

RECURSIVE MetaScan(_, _, _)
MetaScan(lines, i, specs) ==
    IF i > Len(lines) THEN specs
    ELSE IF Len(lines[i]) <= 1 THEN specs
    ELSE MetaScan(lines, i + 1,
                  MetaAssign(specs, Strip(lines[i][1]), Strip(lines[i][2])))

MetaDataFromRawLines(lines) ==
    MetaScan(Drop(lines, SectionStart(lines, "Meta-Data", 1)), 1,
             STOMetaDataDefault)

-----------------------------------------------------------------------------
(* STOMissionResult.from_raw_lines *)

STOMissionResultDefault ==
    [nb_executions |-> None, seed |-> None, mission_time |-> None,
     date_start |-> None, date_end |-> None, event_fired_stats |-> None]

Raised == [ok |-> FALSE, val |-> None]
Returned(v) == [ok |-> TRUE, val |-> v]

\* EventFiredStats reading the line under the key line
EventFiredStats_NextLine(lines, i) ==
    IF i + 1 > Len(lines) THEN Raised
    ELSE LET s == lines[i + 1]
         IN  IF Len(s) < 3 THEN Raised
             ELSE IF ~(is_float(s[1]) /\ is_float(s[2]) /\ is_float(s[3]))
             THEN Raised
             ELSE Returned([mean |-> ToFloat(s[1]), min |-> ToFloat(s[2]),
                            max |-> ToFloat(s[3])])

\* the lines of the branch "Number of events fired per execution": the
\* line two positions after line i of the section, its first three fields
\* as floats; IndexError or ValueError otherwise
EventFiredStats(lines, i) ==
    IF i + 2 > Len(lines) THEN Raised
    ELSE LET s == lines[i + 2]
         IN  IF Len(s) < 3 THEN Raised
             ELSE IF ~(is_float(s[1]) /\ is_float(s[2]) /\ is_float(s[3]))
             THEN Raised
             ELSE Returned([mean |-> ToFloat(s[1]), min |-> ToFloat(s[2]),
                            max |-> ToFloat(s[3])])

\* one iteration of the loop after the short-line test; nb_executions is
\* kept as the string read, the other numeric keys are converted here
MissionAssign(lines, i, specs, key, value) ==
    CASE key = "Number of executions" ->
            Returned([specs EXCEPT !.nb_executions = Some(value)])
      [] key = "Seed" ->
            IF IsInt(value)
            THEN Returned([specs EXCEPT !.seed = Some(ToInt(value))])
            ELSE Raised
      [] key = "Mission time" ->
            IF is_float(value)
            THEN Returned([specs EXCEPT !.mission_time = Some(ToFloat(value))])
            ELSE Raised
      [] key = "Started" -> Returned([specs EXCEPT !.date_start = Some(value)])
      [] key = "Completed" -> Returned([specs EXCEPT !.date_end = Some(value)])
      [] key = "Number of events fired per execution" ->
            LET e == EventFiredStats(lines, i)
            IN  IF e.ok
                THEN Returned([specs EXCEPT !.event_fired_stats = Some(e.val)])
                ELSE Raised
      [] OTHER -> Returned(specs)

RECURSIVE MissionScan(_, _, _)
MissionScan(lines, i, specs) ==
    IF i > Len(lines) THEN Returned(specs)
    ELSE IF Len(lines[i]) <= 1 THEN Returned(specs)
    ELSE LET r == MissionAssign(lines, i, specs,
                                Strip(lines[i][1]), Strip(lines[i][2]))
         IN  IF r.ok THEN MissionScan(lines, i + 1, r.val) ELSE Raised

\* cls(**cls_specs): the int field nb_executions is validated from the
\* string read
MissionConstruct(specs) ==
    IF IsNone(specs.nb_executions) THEN Returned(specs)
    ELSE IF IsInt(Val(specs.nb_executions))
    THEN Returned([specs EXCEPT
                     !.nb_executions = Some(ToInt(Val(specs.nb_executions)))])
    ELSE Raised

MissionFromRawLines(lines) ==
    LET r == MissionScan(Drop(lines, SectionStart(lines, "Mission", 1)), 1,
                         STOMissionResultDefault)
    IN  IF r.ok THEN MissionConstruct(r.val) ELSE Raised

-----------------------------------------------------------------------------
(* STOIndicator: field validation and cls_validator *)

\* str(x) of an optional string
Str(o) == IF IsNone(o) THEN "None" ELSE Val(o)

\* a raw keyword argument is None, Some([t |-> "str", s |-> string]),
\* Some([t |-> "bool", b |-> BOOLEAN]) or Some([t |-> "list"]); pydantic's
\* validation of a str field keeps a string, turns a bool into str(bool)
\* and rejects a list
StrFieldOk(raw) == IsNone(raw) \/ Val(raw).t \in {"str", "bool"}

StrField(raw) ==
    IF IsNone(raw) THEN None
    ELSE IF Val(raw).t = "bool"
    THEN Some(IF Val(raw).b THEN "True" ELSE "False")
    ELSE Some(Val(raw).s)

\* str(value).lower() on the values the validator recognizes
Lower(s) ==
    CASE s = "True" -> "true"
      [] s = "False" -> "false"
      [] OTHER -> s

\* NormalizedValue with a given value kept for the other types
NormalizedValue_KeepsGiven(type, value) ==
    IF type = Some("Boolean")
    THEN IF value \in {Some("true"), Some("false"), Some("True"), Some("False")}
         THEN Some(Lower(Val(value)))
         ELSE Some("true")
    ELSE IF IsNone(value) THEN Some("non applicable") ELSE value

\* the branch on obj.get('type') of cls_validator
NormalizedValue(type, value) ==
    IF type = Some("Boolean")
    THEN IF value \in {Some("true"), Some("false"), Some("True"), Some("False")}
         THEN Some(Lower(Val(value)))
         ELSE Some("true")
    ELSE Some("non applicable")

\* the root validator, on the validated fields; uuid is the value
\* uuid.uuid4() draws
cls_validator(obj, uuid) ==
    LET id == IF IsNone(obj.id) THEN Some(uuid) ELSE obj.id
        name == IF IsNone(obj.name)
                THEN Some(Str(obj.observer) \o "__" \o Str(obj.measure))
                ELSE obj.name
        description == IF IsNone(obj.description) THEN name
                       ELSE obj.description
    IN  [obj EXCEPT !.id = id, !.name = name, !.description = description,
                    !.value = NormalizedValue(obj.type, obj.value)]

STOIndicatorFields ==
    [id |-> None, name |-> None, description |-> None, unit |-> None,
     tags |-> <<>>, observer |-> None, block |-> None, type |-> None,
     measure |-> None, value |-> None, stats |-> <<>>, data |-> None]

\* STOIndicator(id=indic_id, name=indic_id, observer=observer), as the
\* report parser constructs it
STOIndicatorOfReport(indic_id, observer) ==
    cls_validator([STOIndicatorFields EXCEPT !.id = Some(indic_id),
                                             !.name = Some(indic_id),
                                             !.observer = Some(observer)],
                  "uuid-unused")

-----------------------------------------------------------------------------
(* STOStudyResults.indicators_from_raw_lines *)

\* indics_dict: a dict is the sequence of its values in insertion order,
\* keyed by their id
DictHas(d, key) == \E k \in 1..Len(d) : d[k].id = Some(key)
DictIndex(d, key) == CHOOSE k \in 1..Len(d) : d[k].id = Some(key)
DictSet(d, key, v) ==
    IF DictHas(d, key) THEN [d EXCEPT ![DictIndex(d, key)] = v]
    ELSE Append(d, v)
DictGet(d, key) == d[DictIndex(d, key)]

\* phase 1, the loop over indic_def_lines: every line of 2 fields or more
\* defines an indicator; the first line of fewer sets start to its index
\* in indic_def_lines plus one and ends the loop, and start keeps its
\* value when no such line is met
RECURSIVE DefScan(_, _, _, _)
DefScan(lines, i, dict, start) ==
    IF i > Len(lines) THEN [dict |-> dict, start |-> start]
    ELSE IF Len(lines[i]) <= 1 THEN [dict |-> dict, start |-> i]
    ELSE DefScan(lines, i + 1,
                 DictSet(dict, Strip(lines[i][1]),
                         STOIndicatorOfReport(Strip(lines[i][1]),
                                              Strip(lines[i][2]))),
                 start)

\* math.sqrt on the sample sizes of the alphabet, which are squares
Sqrt(n) == CHOOSE r \in 0..n : r * r = n

\* Ic95 with the sample size in place of its square root
Ic95_DividesBySize(std, sample_size) ==
    IF sample_size <= 0 THEN Raised
    ELSE IF std.nan THEN Returned(NaN)
    ELSE Returned(Float((196 * std.v) \div (100 * sample_size)))

\* 1.96 * std / math.sqrt(sample_size): math.sqrt raises ValueError below
\* zero and the division raises ZeroDivisionError at zero, whatever std is
Ic95(std, sample_size) ==
    IF sample_size <= 0 THEN Raised
    ELSE IF std.nan THEN Returned(NaN)
    ELSE Returned(Float((196 * std.v) \div (100 * Sqrt(sample_size))))

\* data_cur of a sample row, from the fields of the stripped line
SampleRow(ls) ==
    IF Len(ls) < 2 THEN Raised
    ELSE IF ~IsInt(ls[2]) THEN Raised
    ELSE IF Len(ls) >= 3 /\ ~is_float(ls[3]) THEN Raised
    ELSE IF Len(ls) >= 4 /\ ~is_float(ls[4]) THEN Raised
    ELSE LET std == IF Len(ls) >= 4 THEN ToFloat(ls[4]) ELSE NaN
             ic95 == Ic95(std, ToInt(ls[2]))
         IN  IF ~ic95.ok THEN Raised
             ELSE Returned([date |-> ToFloat(ls[1]),
                            sample_size |-> ToInt(ls[2]),
                            mean |-> IF Len(ls) >= 3 THEN ToFloat(ls[3])
                                     ELSE NaN,
                            std |-> std,
                            ic95 |-> ic95.val])

\* SwitchLine with the data of an indicator set to [] only when it has none
SwitchLine_KeepsSeries(st, ls) ==
    IF Len(ls) < 2 THEN Raised
    ELSE IF ~DictHas(st.dict, ls[2]) THEN Raised
    ELSE Returned([dict |-> DictSet(st.dict, ls[2],
                                    [DictGet(st.dict, ls[2]) EXCEPT !.data =
                                       IF IsNone(@) THEN Some(<<>>) ELSE @]),
                   indic_id |-> Some(ls[2])])

\* SwitchLine with a switch line of an undefined id skipped
SwitchLine_SkipsUndefined(st, ls) ==
    IF Len(ls) < 2 THEN Raised
    ELSE IF ~DictHas(st.dict, ls[2]) THEN Returned(st)
    ELSE Returned([dict |-> DictSet(st.dict, ls[2],
                                    [DictGet(st.dict, ls[2])
                                       EXCEPT !.data = Some(<<>>)]),
                   indic_id |-> Some(ls[2])])

\* the branch of a switch line: indic_id = line_split[1] raises IndexError
\* on a line of one field, indics_dict[indic_id] raises KeyError on an id
\* phase 1 did not define, and the data of the indicator becomes []
SwitchLine(st, ls) ==
    IF Len(ls) < 2 THEN Raised
    ELSE IF ~DictHas(st.dict, ls[2]) THEN Raised
    ELSE Returned([dict |-> DictSet(st.dict, ls[2],
                                    [DictGet(st.dict, ls[2])
                                       EXCEPT !.data = Some(<<>>)]),
                   indic_id |-> Some(ls[2])])

\* IsSampleLine without the test of the current indicator
IsSampleLine_NoContextTest(st, ls) == is_float(ls[1])

\* the test of the elif branch
IsSampleLine(st, ls) == is_float(ls[1]) /\ ~IsNone(st.indic_id)

\* the branch of a sample row: data_cur is appended to the data of the
\* current indicator; indics_dict[None] raises KeyError
SampleLine(st, ls) ==
    LET row == SampleRow(ls)
    IN  IF ~row.ok \/ IsNone(st.indic_id) THEN Raised
        ELSE LET cur == DictGet(st.dict, Val(st.indic_id))
             IN  Returned([st EXCEPT !.dict =
                             DictSet(st.dict, Val(st.indic_id),
                                     [cur EXCEPT !.data =
                                        Some(Append(Val(cur.data), row.val))])])

\* one iteration of the loop over indic_data_lines; st is the dict and
\* the current indic_id
DataStep(st, line) ==
    LET ls == StripSplit(line)
    IN  IF ls[1] = "Indicator" THEN SwitchLine(st, ls)
        ELSE IF IsSampleLine(st, ls) THEN SampleLine(st, ls)
        ELSE Returned(st)

RECURSIVE DataScan(_, _, _)
DataScan(lines, i, st) ==
    IF i > Len(lines) THEN Returned(st)
    ELSE LET r == DataStep(st, lines[i])
         IN  IF r.ok THEN DataScan(lines, i + 1, r.val) ELSE Raised

\* pd.DataFrame(data): the rows of the list, none for None
DataFrame(data) == IF IsNone(data) THEN <<>> ELSE Val(data)

\* the lines phase 2 reads: indic_def_lines[start:]
IndicDataLines(lines) ==
    LET indic_def_lines == Drop(lines, SectionStart(lines, "Indicators", 2))
        p1 == DefScan(indic_def_lines, 1, <<>>,
                      SectionStart(lines, "Indicators", 2))
    IN  Drop(indic_def_lines, p1.start)

IndicatorsFromRawLines(lines) ==
    LET indic_def_lines == Drop(lines, SectionStart(lines, "Indicators", 2))
        p1 == DefScan(indic_def_lines, 1, <<>>,
                      SectionStart(lines, "Indicators", 2))
        p2 == DataScan(Drop(indic_def_lines, p1.start), 1,
                       [dict |-> p1.dict, indic_id |-> None])
    IN  IF ~p2.ok THEN Raised
        ELSE Returned([k \in 1..Len(p2.val.dict) |->
                         [p2.val.dict[k] EXCEPT
                            !.data = DataFrame(p2.val.dict[k].data)]])

-----------------------------------------------------------------------------
(* STOStudyResults.from_raw_lines *)

\* UpdateBlock with the assignment left out
UpdateBlock_LeavesUnset(ind, main_block) == ind

\* the loop "Update indicator block information"
UpdateBlock(ind, main_block) ==
    IF ~IsNone(main_block) THEN [ind EXCEPT !.block = main_block] ELSE ind

UpdateBlocks(dict, meta) ==
    [k \in 1..Len(dict) |-> UpdateBlock(dict[k], meta.main_block)]

\* from_raw_lines as a function of the report: the three extractions, the
\* block update and the result
FromRawLines(lines) ==
    LET m == MetaDataFromRawLines(lines)
        r == MissionFromRawLines(lines)
        d == IndicatorsFromRawLines(lines)
    IN  IF ~r.ok \/ ~d.ok THEN Raised
        ELSE Returned([meta_data |-> m, mission |-> r.val,
                       indicators |-> UpdateBlocks(d.val, m)])

-----------------------------------------------------------------------------
(* Reports *)

\* the longest run of data lines after the definitions of a report
MaxData == 3

\* the sequences over S of length n at most
RECURSIVE SeqsUpTo(_, _)
SeqsUpTo(S, n) ==
    IF n = 0 THEN {<<>>}
    ELSE LET shorter == SeqsUpTo(S, n - 1)
         IN  shorter \cup {Append(s, x) : s \in shorter, x \in S}

BlankLine == <<"">>

MetaSections ==
    { <<>>,
      << <<"Meta-Data">>, <<"Main block", "BlockA">>, BlankLine >>,
      << <<"Meta-Data">>, <<"Source file", "model.alt">>,
         <<"Generated by", "ar3">>, <<"Main block", "BlockA ">>, BlankLine,
         <<"Tool version", "1.0">> >>,
      \* key rows under no marker
      << <<"Main block", "BlockA">>, BlankLine >>,
      \* the marker and the key row on one line
      << <<"Meta-Data", "Main block", "BlockA">> >> }

MissionSections ==
    { <<>>,
      << <<"Mission">>, <<"Seed", "1234">>, BlankLine >>,
      << <<"Mission">>, <<"Number of executions", "100">>,
         <<"Mission time", "1000.0">>,
         <<"Number of events fired per execution", "">>,
         <<"mean", "min", "max">>, <<"12.5", "3", "40">>, BlankLine >>,
      << <<"Mission">>, <<"Seed", "1234">>,
         <<"Number of events fired per execution", "">>,
         <<"12.5", "3", "40">>, BlankLine >>,
      << <<"Mission">>, <<"Seed", "abc">>, BlankLine >>,
      \* key rows under no marker
      << <<"Seed", "1234">>, BlankLine >>,
      \* the marker and the key row on one line
      << <<"Mission", "Seed", "1234">> >>,
      \* a fourth field on the statistics line
      << <<"Mission">>, <<"Seed", "1234">>,
         <<"Number of events fired per execution", "">>,
         <<"mean", "min", "max">>, <<"12.5", "3", "40", "7">>, BlankLine >>,
      \* numbers on the line under the key and on the one after it
      << <<"Mission">>, <<"Number of events fired per execution", "">>,
         <<"1.0", "2.0", "5.0">>, <<"12.5", "3", "40">>, BlankLine >>,
      \* names on the statistics line
      << <<"Mission">>, <<"Number of events fired per execution", "">>,
         <<"12.5", "3", "40">>, <<"mean", "min", "max">>, BlankLine >>,
      \* the key on the last line of the section, and after a short line
      << <<"Mission">>, <<"Started", "Mon">>, BlankLine,
         <<"Completed", "Tue">>,
         <<"Number of events fired per execution", "">> >> }

IndicatorsHeader == << <<"Indicators">>, <<"Name", "Observer">> >>
Def1 == <<"ind1", "obsA">>
Def2 == <<"ind2 ", "obsB">>
Switch1 == <<"Indicator", "ind1">>
Switch2 == <<"Indicator", "ind2">>
Sample1 == <<"0.0", "100", "5.0", "1.0">>

\* the sections of the reports with all three sections
IndicatorsSections ==
    { <<>>,
      IndicatorsHeader \o <<Def1, BlankLine, Switch1, Sample1>>,
      IndicatorsHeader \o <<Def1, Def2, BlankLine, Switch1, Sample1,
                            <<"1.0", "4", "2.0">>, Switch2, Sample1>>,
      IndicatorsHeader \o <<BlankLine, Sample1>>,
      << <<"Indicators ">> >>,
      \* definitions and data under no marker
      <<Def1, BlankLine, Switch1, Sample1>>,
      \* no column header row and no line between definition and data
      << <<"Indicators">>, Def1, Switch1, Sample1 >> }

\* the lines after the definitions of the reports of one Indicators section
DataAlphabet ==
    { Switch1, Switch2, Sample1,
      <<" 0.0", "4", "2.0">>,         \* no std column
      <<"2.0", "0", "5.0", "1.0">>,   \* sample_size 0
      <<"Indicator">>,
      <<"Date", "Size">>,
      BlankLine }

Orders ==
    { <<"meta", "mission", "indic">>, <<"meta", "indic", "mission">>,
      <<"mission", "meta", "indic">>, <<"mission", "indic", "meta">>,
      <<"indic", "meta", "mission">>, <<"indic", "mission", "meta">> }

Layouts ==
    [meta : MetaSections, mission : MissionSections,
     indic : IndicatorsSections, order : Orders]
    \cup
    { [meta |-> <<>>, mission |-> <<>>,
       indic |-> IndicatorsHeader \o defs \o sep \o data,
       order |-> <<"meta", "mission", "indic">>] :
         defs \in {<<>>, <<Def1>>, <<Def1, Def2>>},
         sep \in {<<>>, <<BlankLine>>},
         data \in SeqsUpTo(DataAlphabet, MaxData) }

Section(l, name) ==
    CASE name = "meta" -> l.meta
      [] name = "mission" -> l.mission
      [] name = "indic" -> l.indic

\* the report of a layout: its sections in its order
Assemble(l) ==
    Section(l, l.order[1]) \o Section(l, l.order[2]) \o Section(l, l.order[3])

-----------------------------------------------------------------------------
(* The parse of a report: STOStudyResults.from_raw_lines *)

Unused == "unused"

InitParse ==
    /\ layout \in Layouts
    /\ raw_lines = Assemble(layout)
    /\ pc = "meta_data"
    /\ meta_data = None
    /\ mission = None
    /\ indicators = None
    /\ result = None
    /\ kwargs = Unused /\ indic = Unused
    /\ study = Unused /\ idf = Unused /\ mdf = Unused

ParseMetaData ==
    /\ pc = "meta_data"
    /\ meta_data' = Some(MetaDataFromRawLines(raw_lines))
    /\ pc' = "mission"
    /\ UNCHANGED <<layout, raw_lines, mission, indicators, result,
                   kwargs, indic, study, idf, mdf>>

ParseMission ==
    /\ pc = "mission"
    /\ LET r == MissionFromRawLines(raw_lines)
       IN  IF r.ok THEN mission' = Some(r.val) /\ pc' = "indicators"
           ELSE mission' = mission /\ pc' = "raised"
    /\ UNCHANGED <<layout, raw_lines, meta_data, indicators, result,
                   kwargs, indic, study, idf, mdf>>

ParseIndicators ==
    /\ pc = "indicators"
    /\ LET r == IndicatorsFromRawLines(raw_lines)
       IN  IF r.ok THEN indicators' = Some(r.val) /\ pc' = "update"
           ELSE indicators' = indicators /\ pc' = "raised"
    /\ UNCHANGED <<layout, raw_lines, meta_data, mission, result,
                   kwargs, indic, study, idf, mdf>>

\* the block update and the construction of the result
BuildResults ==
    /\ pc = "update"
    /\ indicators' = Some(UpdateBlocks(Val(indicators), Val(meta_data)))
    /\ result' = Some([meta_data |-> Val(meta_data),
                       mission |-> Val(mission),
                       indicators |-> Val(indicators')])
    /\ pc' = "done"
    /\ UNCHANGED <<layout, raw_lines, meta_data, mission,
                   kwargs, indic, study, idf, mdf>>

NextParse == ParseMetaData \/ ParseMission \/ ParseIndicators \/ BuildResults

Spec == InitParse /\ [][NextParse]_vars

-----------------------------------------------------------------------------
(* Claims on the parse of a report *)

Finished == pc \in {"done", "raised"}

\* the scenario report as the code reads such a report: every marker on a
\* line of its own, a column header row under the Indicators marker and a
\* short line between the definition row and the data block
ScenarioWellFormed ==
    [meta |-> << <<"Meta-Data">>, <<"Main block", "BlockA">>, BlankLine >>,
     mission |-> << <<"Mission">>, <<"Seed", "1234">>, BlankLine >>,
     indic |-> IndicatorsHeader \o <<Def1, BlankLine, Switch1, Sample1>>,
     order |-> <<"meta", "mission", "indic">>]

\* the scenario report line for line as the scenario lists it
ScenarioLiteral ==
    [meta |-> << <<"Meta-Data", "Main block", "BlockA">> >>,
     mission |-> << <<"Mission", "Seed", "1234">> >>,
     indic |-> << <<"Indicators">>, Def1, Switch1, Sample1 >>,
     order |-> <<"meta", "mission", "indic">>]

ScenarioResult ==
    /\ pc = "done"
    /\ Val(result).meta_data.main_block = Some("BlockA")
    /\ Val(result).mission.seed = Some(1234)
    /\ DictHas(Val(result).indicators, "ind1")
    /\ DictGet(Val(result).indicators, "ind1").data =
          << [date |-> Float(0), sample_size |-> 100, mean |-> Float(5000),
              std |-> Float(1000), ic95 |-> Float(196)] >>
    /\ DictGet(Val(result).indicators, "ind1").block = Some("BlockA")

\* C1 as stated: the parse of the scenario report, in the well-formed
\* rendering and in the rendering the scenario lists line for line, ends
\* with main_block "BlockA", seed 1234, the one point of ind1
\* (0.0, 100, 5.0, 1.0, 0.196) and block "BlockA".
C1_AsStated ==
    (layout \in {ScenarioWellFormed, ScenarioLiteral} /\ Finished)
        => ScenarioResult

\* C1 amended: the parse of the scenario report whose markers stand on
\* lines of their own, with a column header row under the Indicators marker
\* and a short line between the definition row and the data block, ends
\* with main_block "BlockA", seed 1234, the one point of ind1
\* (0.0, 100, 5.0, 1.0, 0.196) and block "BlockA".
C1_Scenario == (layout = ScenarioWellFormed /\ Finished) => ScenarioResult

C1_Witness == layout = ScenarioWellFormed /\ pc = "done"

\* the index in raw_lines of the first definition line, and of the short
\* line that ends the definitions (0 when there is none)
FirstDefLine ==
    LET hits == {i \in 1..Len(raw_lines) : Strip(raw_lines[i][1]) = "Indicators"}
    IN  IF hits = {} THEN Len(raw_lines) + 1 ELSE SetMin(hits) + 2

DefEndLine ==
    LET short == {i \in FirstDefLine..Len(raw_lines) : Len(raw_lines[i]) <= 1}
    IN  IF short = {} THEN 0 ELSE SetMin(short)

\* the lines after the short line that ends the definitions, as phase 2
\* splits them
DataRegion ==
    [i \in 1..(Len(raw_lines) - DefEndLine) |->
        StripSplit(raw_lines[DefEndLine + i])]

IsSwitch(l) == l[1] = "Indicator"

\* the numeric-leading lines after the last switch line of id, up to the
\* next switch line
LinesOfSeries(id) ==
    LET D == DataRegion
        mine == {i \in 1..Len(D) : IsSwitch(D[i]) /\ Len(D[i]) >= 2
                                   /\ D[i][2] = id}
    IN  IF mine = {} THEN <<>>
        ELSE LET k == SetMax(mine)
                 later == {j \in (k + 1)..Len(D) : IsSwitch(D[j])}
                 stop == IF later = {} THEN Len(D) + 1 ELSE SetMin(later)
                 numeric(l) == is_float(l[1])
             IN  SelectSeq(SubSeq(D, k + 1, stop - 1), numeric)

\* C2: when the parse of a report whose definitions end with a short line
\* succeeds, the series of every indicator holds one point per
\* numeric-leading line after the last switch line of its id, up to the
\* next switch line or the end of input, in the order of the lines; it is
\* empty for an id no switch line names.
C2_SeriesOfLastSwitch ==
    (pc = "done" /\ DefEndLine # 0) =>
        \A k \in 1..Len(Val(result).indicators) :
            LET ind == Val(result).indicators[k]
                L == LinesOfSeries(Val(ind.id))
            IN  ind.data = [i \in 1..Len(L) |-> SampleRow(L[i]).val]

\* a series reset by a second switch line of its id, and a numeric-leading
\* line met before any switch line
C2_Witness ==
    /\ pc = "done"
    /\ DefEndLine # 0
    /\ \E i, j, k \in 1..Len(DataRegion) :
          /\ i < j /\ j < k
          /\ DataRegion[i] = Switch1 /\ is_float(DataRegion[j][1])
          /\ DataRegion[k] = Switch1
    /\ DictGet(Val(result).indicators, "ind1").data = <<>>

C2_WitnessNoContext ==
    /\ pc = "done"
    /\ DefEndLine # 0
    /\ Len(DataRegion) >= 2
    /\ is_float(DataRegion[1][1])
    /\ DataRegion[2] = Switch1


\* the ids the definition rows define, and the lines phase 2 reads
DefinedIds ==
    LET last == IF DefEndLine = 0 THEN Len(raw_lines) ELSE DefEndLine - 1
    IN  {Strip(raw_lines[i][1]) : i \in FirstDefLine..last}

Phase2Lines ==
    LET D == IndicDataLines(raw_lines)
    IN  [i \in 1..Len(D) |-> StripSplit(D[i])]

IndicatorsExtracted == pc \in {"update", "done", "raised"}

UndefinedSwitch(l) == IsSwitch(l) /\ Len(l) >= 2 /\ l[2] \notin DefinedIds

\* C3: when a switch line that phase 2 reads names an id no definition row
\* defines, the parse raises: no indicator mapping and no result is
\* returned.
C3_UndefinedIdRaises ==
    (IndicatorsExtracted
       /\ \E i \in 1..Len(Phase2Lines) : UndefinedSwitch(Phase2Lines[i]))
        => (pc = "raised" /\ indicators = None /\ result = None)

\* the undefined id is the first fault of the report: the mission parsed,
\* and no line before the switch line is one
C3_Witness ==
    /\ pc = "raised"
    /\ mission # None
    /\ DefinedIds # {}
    /\ \E i \in 1..Len(Phase2Lines) :
          /\ UndefinedSwitch(Phase2Lines[i])
          /\ \A j \in 1..(i - 1) : ~IsSwitch(Phase2Lines[j])

\* a line of phase 2 that raises for a reason other than its sample size
OtherFault(l) ==
    \/ IsSwitch(l) /\ (Len(l) < 2 \/ l[2] \notin DefinedIds)
    \/ /\ is_float(l[1])
       /\ \/ Len(l) < 2
          \/ ~IsInt(l[2])
          \/ Len(l) >= 3 /\ ~is_float(l[3])
          \/ Len(l) >= 4 /\ ~is_float(l[4])

\* C4 as stated: every point of a series has ic95 = 1.96 * std /
\* sqrt(sample_size) when std is present and sample_size > 0 and NaN
\* otherwise, and the extraction of the indicators raises only on a line
\* that is faulty otherwise: a sample size of 0 never makes it raise.
C4_AsStated ==
    /\ pc = "done" =>
          \A k \in 1..Len(Val(result).indicators) :
            \A n \in 1..Len(Val(result).indicators[k].data) :
              LET p == Val(result).indicators[k].data[n]
              IN  p.ic95 = IF ~p.std.nan /\ p.sample_size > 0
                           THEN Float((196 * p.std.v)
                                        \div (100 * Sqrt(p.sample_size)))
                           ELSE NaN
    /\ (pc = "raised" /\ mission # None) =>
          \E i \in 1..Len(Phase2Lines) : OtherFault(Phase2Lines[i])

NoMarker(marker) ==
    \A i \in 1..Len(raw_lines) : Strip(raw_lines[i][1]) # marker

\* C5: when no line has the marker of a section as its stripped first
\* field, the start of the section is the number of lines and its
\* extractor returns the default record (the empty mapping for the
\* indicators) without raising.
C5_AbsentSectionDefault ==
    /\ (NoMarker("Meta-Data") /\ pc # "meta_data") =>
          /\ SectionStart(raw_lines, "Meta-Data", 1) = Len(raw_lines)
          /\ meta_data = Some(STOMetaDataDefault)
    /\ (NoMarker("Mission") /\ pc \notin {"meta_data", "mission"}) =>
          /\ SectionStart(raw_lines, "Mission", 1) = Len(raw_lines)
          /\ mission = Some(STOMissionResultDefault)
    /\ (NoMarker("Indicators") /\ IndicatorsExtracted /\ mission # None) =>
          /\ SectionStart(raw_lines, "Indicators", 2) = Len(raw_lines)
          /\ pc # "raised"
          /\ indicators = Some(<<>>)

\* a report of key rows, definitions and data under no marker at all
C5_Witness ==
    /\ pc = "done"
    /\ NoMarker("Meta-Data") /\ NoMarker("Mission") /\ NoMarker("Indicators")
    /\ \E i \in 1..Len(raw_lines) : Strip(raw_lines[i][1]) = "Main block"
    /\ \E i \in 1..Len(raw_lines) : Strip(raw_lines[i][1]) = "Seed"
    /\ \E i \in 1..Len(raw_lines) : raw_lines[i] = Switch1

\* an Indicators marker and no definition row: the input ends before the
\* first definition line, or that line is short
ZeroDefinitions ==
    /\ ~NoMarker("Indicators")
    /\ FirstDefLine > Len(raw_lines) \/ Len(raw_lines[FirstDefLine]) <= 1

\* C6 as stated: a report with an Indicators marker and no definition row
\* yields the empty mapping and no error, whatever lines follow.
C6_AsStated ==
    (ZeroDefinitions /\ IndicatorsExtracted /\ mission # None)
        => (pc # "raised" /\ indicators = Some(<<>>))

SwitchFollows == \E i \in 1..Len(DataRegion) : IsSwitch(DataRegion[i])

\* C6 amended: a report with an Indicators marker and no definition row
\* yields the empty mapping and no error when no line after the
\* definitions is a switch line, and its parse raises when one is.
C6_ZeroDefinitions ==
    (ZeroDefinitions /\ IndicatorsExtracted /\ mission # None)
        => IF FirstDefLine <= Len(raw_lines) /\ SwitchFollows
           THEN pc = "raised" /\ indicators = None
           ELSE pc # "raised" /\ indicators = Some(<<>>)

\* no definition row, and a sample row among the lines that follow
C6_Witness ==
    /\ ZeroDefinitions
    /\ pc = "done"
    /\ indicators = Some(<<>>)
    /\ \E i \in 1..Len(DataRegion) : is_float(DataRegion[i][1])


\* a section that can be parsed on its own: its marker alone on its first
\* line, no marker on a later line, and for the Indicators section a column
\* header row and a short line that ends the definitions
Markers == {"Meta-Data", "Mission", "Indicators"}

OwnSection(sec, marker) ==
    /\ Len(sec) >= 1
    /\ Len(sec[1]) = 1 /\ Strip(sec[1][1]) = marker
    /\ \A i \in 2..Len(sec) : Strip(sec[i][1]) \notin Markers

WellFormedSections ==
    /\ OwnSection(layout.meta, "Meta-Data")
    /\ OwnSection(layout.mission, "Mission")
    /\ MissionFromRawLines(layout.mission).ok
    /\ OwnSection(layout.indic, "Indicators")
    /\ Len(layout.indic) >= 2 /\ Len(layout.indic[2]) >= 2
    /\ \E i \in 3..Len(layout.indic) : Len(layout.indic[i]) <= 1
    /\ IndicatorsFromRawLines(layout.indic).ok

Reordered(o) == Assemble([layout EXCEPT !.order = o])

\* C7 as stated: the parse of a report of three well-formed sections, in
\* whatever order they stand, succeeds and returns the metadata, mission
\* and indicators that the parse of the same sections in the order
\* Meta-Data, Mission, Indicators returns.
C7_AsStated ==
    (WellFormedSections /\ Finished) =>
        /\ pc = "done"
        /\ FromRawLines(Reordered(<<"meta", "mission", "indic">>))
              = Returned(Val(result))

\* the actions of the parse and from_raw_lines as a function agree
ParseIsFromRawLines ==
    Finished => /\ (pc = "done") = FromRawLines(raw_lines).ok
                /\ pc = "done" => FromRawLines(raw_lines).val = Val(result)

-----------------------------------------------------------------------------
(* The construction of an STOIndicator *)

Str_(s) == Some([t |-> "str", s |-> s])
Bool_(b) == Some([t |-> "bool", b |-> b])
List_ == Some([t |-> "list"])

RawValues ==
    { None, Str_("true"), Str_("false"), Str_("True"), Str_("False"),
      Str_("TRUE"), Str_("FALSE"), Str_("yes"), Str_("non applicable"),
      Bool_(TRUE), Bool_(FALSE), List_ }

RawTypes == { None, Str_("Boolean"), Str_("Real"), Str_("boolean") }

Kwargs ==
    [id : {None, Str_("ind1")}, name : {None, Str_("Pump failed")},
     observer : {None, Str_("obsA")}, measure : {None},
     type : RawTypes, value : RawValues]

Uuids == {"uuid-1", "uuid-2"}

\* the validation of the fields that precedes the root validator
FieldsOk(kw) ==
    /\ StrFieldOk(kw.id) /\ StrFieldOk(kw.name) /\ StrFieldOk(kw.observer)
    /\ StrFieldOk(kw.measure) /\ StrFieldOk(kw.type) /\ StrFieldOk(kw.value)

Validated(kw) ==
    [STOIndicatorFields EXCEPT
        !.id = StrField(kw.id), !.name = StrField(kw.name),
        !.observer = StrField(kw.observer), !.measure = StrField(kw.measure),
        !.type = StrField(kw.type), !.value = StrField(kw.value)]

InitIndicator ==
    /\ kwargs \in Kwargs
    /\ indic = None
    /\ pc = "construct"
    /\ layout = Unused /\ raw_lines = Unused /\ meta_data = Unused
    /\ mission = Unused /\ indicators = Unused /\ result = Unused
    /\ study = Unused /\ idf = Unused /\ mdf = Unused

\* STOIndicator(**kwargs)
Construct ==
    /\ pc = "construct"
    /\ IF FieldsOk(kwargs)
       THEN \E uuid \in Uuids :
              /\ indic' = Some(cls_validator(Validated(kwargs), uuid))
              /\ pc' = "constructed"
       ELSE indic' = indic /\ pc' = "raised"
    /\ UNCHANGED <<layout, raw_lines, meta_data, mission, indicators, result,
                   kwargs, study, idf, mdf>>

\* STOIndicator(**indic.dict()): the validator on a constructed indicator
Reconstruct ==
    /\ pc = "constructed"
    /\ \E uuid \in Uuids : indic' = Some(cls_validator(Val(indic), uuid))
    /\ pc' = "reconstructed"
    /\ UNCHANGED <<layout, raw_lines, meta_data, mission, indicators, result,
                   kwargs, study, idf, mdf>>

NextIndicator == Construct \/ Reconstruct

SpecIndicator == InitIndicator /\ [][NextIndicator]_vars

\* the value the invariant asks of an indicator constructed from kw
RecognizedTrue == {Str_("true"), Str_("True"), Bool_(TRUE)}
RecognizedFalse == {Str_("false"), Str_("False"), Bool_(FALSE)}

NormalValue(kw) ==
    IF kw.type = Str_("Boolean")
    THEN IF kw.value \in RecognizedFalse THEN "false" ELSE "true"
    ELSE "non applicable"

\* C10: a constructed STOIndicator of type "Boolean" has the value "true"
\* or "false", the lower case of a recognized input and "true" for any
\* other; an indicator of any other type has the value 'non applicable';
\* the validator applied again leaves the value as it is.
C10_NormalizedValue ==
    pc \in {"constructed", "reconstructed"} =>
        /\ Val(indic).value = Some(NormalValue(kwargs))
        /\ Val(indic).type = Some("Boolean") =>
              Val(indic).value \in {Some("true"), Some("false")}

C10_Witness ==
    /\ pc = "reconstructed"
    /\ kwargs.type = Str_("Boolean")
    /\ kwargs.value = Bool_(FALSE)
    /\ Val(indic).value = Some("false")

-----------------------------------------------------------------------------
(* STOStudy: to_idf and to_mdf *)

\* an element of a document: its tag, its attributes in the order they
\* were set, its children in the order they were added
Elt(tag, attrs, children) ==
    [tag |-> tag, attrs |-> attrs, children |-> children]

\* str() of the numbers of the simulation parameters
StrOfInt(n) ==
    CASE n = 100 -> "100"
      [] n = 1234 -> "1234"

StrOfFloat(x) ==
    CASE x.nan -> "nan"
      [] x = Float(0) -> "0.0"
      [] x = Float(1000) -> "1.0"
      [] x = Float(1000000) -> "1000.0"

StrOfOptFloat(o) == IF IsNone(o) THEN "None" ELSE StrOfFloat(Val(o))

\* the truth value of an optional float: None and 0.0 are false
Truthy(o) == ~IsNone(o) /\ (Val(o).nan \/ Val(o).v # 0)

\* the element of one indicator and of its stats; set() raises TypeError
\* on an attribute value that is None
IndicatorElt(ind) ==
    Elt("indicator",
        << <<"name", Val(ind.id)>>, <<"type", Val(ind.measure)>>,
           <<"value", Val(ind.value)>> >>,
        [k \in 1..Len(ind.stats) |-> Elt(ind.stats[k], <<>>, <<>>)])

IndicatorEltOk(ind) ==
    ~IsNone(ind.id) /\ ~IsNone(ind.measure) /\ ~IsNone(ind.value)
    /\ ~IsNone(ind.observer)

\* the calculation element the observers dict holds for an observer
HasCalculation(calcs, observer) ==
    \E k \in 1..Len(calcs) : calcs[k].attrs = << <<"observer", observer>> >>

CalculationIndex(calcs, observer) ==
    CHOOSE k \in 1..Len(calcs) : calcs[k].attrs = << <<"observer", observer>> >>

\* IdfStep with a calculation element opened at every change of observer
IdfStep_GroupsAdjacent(calcs, ind) ==
    LET observer == Val(ind.observer)
        with == IF Len(calcs) > 0
                   /\ calcs[Len(calcs)].attrs = << <<"observer", observer>> >>
                THEN calcs
                ELSE Append(calcs, Elt("calculation",
                                       << <<"observer", observer>> >>, <<>>))
    IN  [with EXCEPT ![Len(with)].children = Append(@, IndicatorElt(ind))]

\* one iteration of the loop of to_idf over self.indicators
IdfStep(calcs, ind) ==
    LET observer == Val(ind.observer)
        with == IF HasCalculation(calcs, observer) THEN calcs
                ELSE Append(calcs, Elt("calculation",
                                       << <<"observer", observer>> >>, <<>>))
        k == CalculationIndex(with, observer)
    IN  [with EXCEPT ![k].children = Append(@, IndicatorElt(ind))]

RECURSIVE IdfScan(_, _, _)
IdfScan(inds, i, calcs) ==
    IF i > Len(inds) THEN Returned(calcs)
    ELSE IF ~IndicatorEltOk(inds[i]) THEN Raised
    ELSE IdfScan(inds, i + 1, IdfStep(calcs, inds[i]))

\* the document to_idf writes
IdfDocument(st) ==
    LET r == IdfScan(st.indicators, 1, <<>>)
    IN  IF r.ok THEN Returned(Elt("ar3ccp", <<>>, r.val)) ELSE Raised

\* the range element of to_mdf and the test that guards it
HasRangeElt(p) == Truthy(p.schedule_step)

RangeElt(p) ==
    Elt("range",
        << <<"step", StrOfOptFloat(p.schedule_step)>>,
           <<"from", StrOfOptFloat(p.schedule_from)>>,
           <<"to", StrOfOptFloat(p.schedule_to)>> >>,
        <<>>)

\* the document to_mdf writes, from the simulation parameters in effect
MdfDocument(p) ==
    Elt("ar3ccp", <<>>,
        << Elt("simulation",
               << <<"seed", StrOfInt(p.seed)>>,
                  <<"number-of-runs", StrOfInt(p.nb_runs)>>,
                  <<"results-csv", p.result_filename>> >>,
               << Elt("schedule",
                      << <<"mission-time", StrOfOptFloat(p.schedule_to)>> >>,
                      IF HasRangeElt(p) THEN <<RangeElt(p)>> ELSE <<>>) >>) >>)

\* the most indicators of a study
MaxIndicators == 3

STOSimulationParamDefault ==
    [nb_runs |-> 100, seed |-> 1234, result_filename |-> "result.csv",
     schedule_name |-> "Date", schedule_unit |-> None,
     schedule_from |-> None, schedule_to |-> None, schedule_step |-> None]

SimulationParams ==
    { [STOSimulationParamDefault EXCEPT
          !.schedule_from = from, !.schedule_to = Some(Float(1000000)),
          !.schedule_step = step] :
        from \in {None, Some(Float(0))},
        step \in {None, Some(Float(0)), Some(Float(1000))} }

IndicatorKwargs(id, observer, measure, type, value) ==
    [id |-> Str_(id), name |-> None, observer |-> Str_(observer),
     measure |-> measure, type |-> Str_(type), value |-> value]

StudyIndicators ==
    { [cls_validator(Validated(
          IndicatorKwargs("ind1", "obsA", Str_("sojourn-time"), "Boolean",
                          Bool_(TRUE))), "uuid-1")
         EXCEPT !.stats = <<"mean">>],
      [cls_validator(Validated(
          IndicatorKwargs("ind2", "obsB", Str_("value"), "Real", None)),
          "uuid-1")
         EXCEPT !.stats = <<"mean", "stddev">>],
      cls_validator(Validated(
          IndicatorKwargs("ind3", "obsA", Str_("had-value"), "Boolean",
                          Str_("false"))), "uuid-1"),
      \* no measure
      cls_validator(Validated(
          IndicatorKwargs("ind4", "obsB", None, "Real", None)), "uuid-1") }

Studies ==
    [name : {Some("study")}, description : {None},
     main_block : {Some("BlockA")},
     indicators : SeqsUpTo(StudyIndicators, MaxIndicators),
     simu_params : SimulationParams]

ResultFilenames == {None, Some("out.csv")}

InitStudy ==
    /\ study \in Studies
    /\ idf = None
    /\ mdf = None
    /\ pc = "study"
    /\ layout = Unused /\ raw_lines = Unused /\ meta_data = Unused
    /\ mission = Unused /\ indicators = Unused /\ result = Unused
    /\ kwargs = Unused /\ indic = Unused

\* study.to_idf(filename)
ToIdf ==
    /\ LET r == IdfDocument(study)
       IN  IF r.ok THEN idf' = Some(r.val) /\ pc' = "idf_written"
           ELSE idf' = idf /\ pc' = "idf_raised"
    /\ UNCHANGED <<layout, raw_lines, meta_data, mission, indicators, result,
                   kwargs, indic, study, mdf>>

\* SetResultFilename with an unset argument read as the default name
SetResultFilename_DefaultsWhenUnset(st, result_filename) ==
    [st EXCEPT !.simu_params.result_filename =
                  IF ~IsNone(result_filename) THEN Val(result_filename)
                  ELSE STOSimulationParamDefault.result_filename]

\* the first statement of to_mdf: the override of result_filename
SetResultFilename(st, result_filename) ==
    IF ~IsNone(result_filename)
    THEN [st EXCEPT !.simu_params.result_filename = Val(result_filename)]
    ELSE st

\* study.to_mdf(filename, result_filename)
ToMdf ==
    /\ \E result_filename \in ResultFilenames :
          /\ kwargs' = [result_filename |-> result_filename]
          /\ study' = SetResultFilename(study, result_filename)
          /\ mdf' = Some(MdfDocument(study'.simu_params))
    /\ pc' = "mdf_written"
    /\ UNCHANGED <<layout, raw_lines, meta_data, mission, indicators, result,
                   indic, idf>>

NextStudy == ToIdf \/ ToMdf

SpecStudy == InitStudy /\ [][NextStudy]_vars

\* the range elements of the document to_mdf wrote
RangesOfMdf == Val(mdf).children[1].children[1].children

\* C8 as stated: the document of to_mdf holds a range element exactly when
\* schedule_step is set, with the string forms of schedule_step,
\* schedule_from and schedule_to as step, from and to.
C8_AsStated ==
    ~IsNone(mdf) =>
        IF ~IsNone(study.simu_params.schedule_step)
        THEN RangesOfMdf =
               << Elt("range",
                      << <<"step", StrOfOptFloat(study.simu_params.schedule_step)>>,
                         <<"from", StrOfOptFloat(study.simu_params.schedule_from)>>,
                         <<"to", StrOfOptFloat(study.simu_params.schedule_to)>> >>,
                      <<>>) >>
        ELSE RangesOfMdf = <<>>

\* the observers of the indicators of the study, each at its first
\* appearance
FirstSeen ==
    LET inds == study.indicators
        first(i) == \A j \in 1..(i - 1) : inds[j].observer # inds[i].observer
        at == SelectSeq([i \in 1..Len(inds) |-> i], first)
    IN  [k \in 1..Len(at) |-> Val(inds[at[k]].observer)]

\* C9: the document of to_idf holds one calculation element per observer
\* of the indicators, in the order the observers first appear; the
\* calculation of an observer holds one indicator element per indicator
\* of that observer, in the order of the list, with name = id, type =
\* measure and value = value, and one child per stat in order.
C9_IdfGroupsByObserver ==
    ~IsNone(idf) =>
        LET calcs == Val(idf).children
        IN  /\ Len(calcs) = Len(FirstSeen)
            /\ \A k \in 1..Len(calcs) :
                 LET of(ind) == ind.observer = Some(FirstSeen[k])
                     mine == SelectSeq(study.indicators, of)
                 IN  /\ calcs[k].tag = "calculation"
                     /\ calcs[k].attrs = << <<"observer", FirstSeen[k]>> >>
                     /\ Len(calcs[k].children) = Len(mine)
                     /\ \A n \in 1..Len(mine) :
                          LET e == calcs[k].children[n]
                          IN  /\ e.tag = "indicator"
                              /\ e.attrs = << <<"name", Val(mine[n].id)>>,
                                              <<"type", Val(mine[n].measure)>>,
                                              <<"value", Val(mine[n].value)>> >>
                              /\ Len(e.children) = Len(mine[n].stats)
                              /\ \A c \in 1..Len(mine[n].stats) :
                                   e.children[c].tag = mine[n].stats[c]

\* two indicators of one observer with an indicator of another between
\* them
C9_Witness ==
    /\ ~IsNone(idf)
    /\ Len(study.indicators) = 3
    /\ study.indicators[1].observer = study.indicators[3].observer
    /\ study.indicators[1].observer # study.indicators[2].observer
    /\ study.indicators[1].id # study.indicators[3].id

-----------------------------------------------------------------------------
(* Claims on the block update, the mission statistics, the key scans and
   the two phases of the indicator scan *)

\* C11: the extraction leaves the block of every indicator unset; once
\* from_raw_lines has completed, the block of every indicator of the result
\* is the main_block of its metadata, so it is still unset when the report
\* has no "Main block" row
C11_BlockBackFill ==
    /\ pc = "update" =>
          \A k \in 1..Len(Val(indicators)) : IsNone(Val(indicators)[k].block)
    /\ pc = "done" =>
          \A k \in 1..Len(Val(result).indicators) :
             /\ Val(result).indicators[k].block =
                   Val(result).meta_data.main_block
             /\ IsNone(MetaDataFromRawLines(raw_lines).main_block) =>
                   IsNone(Val(result).indicators[k].block)

\* a completed parse of a report with a "Main block" row and two indicators
C11_Witness ==
    /\ pc = "done"
    /\ Val(result).meta_data.main_block = Some("BlockA")
    /\ Len(Val(result).indicators) = 2
    /\ \A k \in 1..2 : Val(result).indicators[k].block = Some("BlockA")

\* the lines the mission extractor scans: those after the "Mission" marker
MissionLines == Drop(raw_lines, SectionStart(raw_lines, "Mission", 1))

\* the first line of lines with fewer than 2 fields, Len(lines) + 1 if none
FirstShortLine(lines) ==
    LET short == {i \in 1..Len(lines) : Len(lines[i]) <= 1}
    IN  IF short = {} THEN Len(lines) + 1 ELSE SetMin(short)

\* the scanned lines of the mission section with the given key
MissionKeyLines(key) ==
    {i \in 1..(FirstShortLine(MissionLines) - 1) :
        Strip(MissionLines[i][1]) = key}

EventsKey == "Number of events fired per execution"

\* line j of the mission lines exists and is exactly three numeric fields
ExactlyThreeNumbers(j) ==
    /\ j <= Len(MissionLines)
    /\ Len(MissionLines[j]) = 3
    /\ \A f \in 1..3 : is_float(MissionLines[j][f])

\* line j of the mission lines exists and starts with three numeric fields
StartsWithThreeNumbers(j) ==
    /\ j <= Len(MissionLines)
    /\ Len(MissionLines[j]) >= 3
    /\ \A f \in 1..3 : is_float(MissionLines[j][f])

StatsOfLine(j) ==
    [mean |-> ToFloat(MissionLines[j][1]), min |-> ToFloat(MissionLines[j][2]),
     max |-> ToFloat(MissionLines[j][3])]

\* a scanned line whose value the extractor cannot convert
MissionValueFault ==
    \/ \E i \in MissionKeyLines("Seed") : ~IsInt(MissionLines[i][2])
    \/ \E i \in MissionKeyLines("Number of executions") :
          ~IsInt(MissionLines[i][2])
    \/ \E i \in MissionKeyLines("Mission time") : ~is_float(MissionLines[i][2])

MissionExtracted == pc \notin {"meta_data", "mission"}

\* C12 as stated: for the key met at line i of the section, the parse
\* fails unless line i + 2 exists and is exactly three numeric tokens, and
\* a mission record has the statistics of line i + 2 of the last key line
C12_AsStated ==
    MissionExtracted =>
       \A i \in MissionKeyLines(EventsKey) :
          /\ ~ExactlyThreeNumbers(i + 2) => IsNone(mission)
          /\ (~IsNone(mission) /\ i = SetMax(MissionKeyLines(EventsKey))) =>
                Val(mission).event_fired_stats = Some(StatsOfLine(i + 2))

\* C12: for the key met at line i of the section, the parse fails when
\* line i + 2 does not exist, has fewer than three fields or has a
\* non-numeric field among its first three; otherwise, and when no other
\* value of the section fails to convert, a mission record is returned
\* whose statistics are the first three fields of line i + 2 of the last
\* key line, whatever lines i and i + 1 hold and whatever follows the third
\* field
C12_StatsTwoLinesLater ==
    MissionExtracted =>
       /\ \A i \in MissionKeyLines(EventsKey) :
             /\ ~StartsWithThreeNumbers(i + 2) =>
                   (IsNone(mission) /\ pc = "raised")
             /\ (~IsNone(mission) /\ i = SetMax(MissionKeyLines(EventsKey))) =>
                   Val(mission).event_fired_stats = Some(StatsOfLine(i + 2))
       /\ ( /\ \A i \in MissionKeyLines(EventsKey) :
                  StartsWithThreeNumbers(i + 2)
            /\ ~MissionValueFault ) => ~IsNone(mission)
       /\ (MissionKeyLines(EventsKey) = {} /\ ~IsNone(mission)) =>
             IsNone(Val(mission).event_fired_stats)

\* a mission record whose statistics come from a line of four fields two
\* lines under the key, the line in between being the column names
C12_Witness ==
    /\ pc = "done"
    /\ \E i \in MissionKeyLines(EventsKey) :
          /\ Len(MissionLines[i + 2]) = 4
          /\ ~is_float(MissionLines[i + 1][1])
          /\ Val(result).mission.event_fired_stats =
                Some([mean |-> Float(12500), min |-> Float(3000),
                      max |-> Float(40000)])

-----------------------------------------------------------------------------
(* Claims on the study left by the generation of its files *)

\* the results-csv attribute of the document to_mdf wrote
ResultsCsvOf(doc) == doc.children[1].attrs[3][2]

\* s and t agree on every field but simu_params.result_filename
SameButResultFilename(s, t) ==
    [s EXCEPT !.simu_params.result_filename = ""] =
       [t EXCEPT !.simu_params.result_filename = ""]

\* C13: a call of to_idf, written or raised, leaves every field of the
\* study as it was; a call of to_mdf leaves every field but
\* simu_params.result_filename as it was, sets that one to the argument
\* when the argument is set and leaves it as it was otherwise, and writes
\* as results-csv the result_filename of the study after the call
C13_GenerationFrame ==
    [][ /\ pc' \in {"idf_written", "idf_raised"} => study' = study
        /\ pc' = "mdf_written" =>
              /\ SameButResultFilename(study', study)
              /\ study'.simu_params.result_filename =
                    IF IsNone(kwargs'.result_filename)
                    THEN study.simu_params.result_filename
                    ELSE Val(kwargs'.result_filename)
              /\ ResultsCsvOf(Val(mdf')) =
                    study'.simu_params.result_filename ]_vars

\* to_mdf called with no result_filename on a study whose result_filename
\* an earlier call has overridden, the file of to_idf written
C13_Witness ==
    /\ pc = "mdf_written"
    /\ kwargs.result_filename = None
    /\ study.simu_params.result_filename = "out.csv"
    /\ ResultsCsvOf(Val(mdf)) = "out.csv"
    /\ ~IsNone(idf)

-----------------------------------------------------------------------------
(* Claims on the scans of the metadata and mission keys *)

\* the lines the metadata extractor scans: those after the "Meta-Data"
\* marker
MetaLines == Drop(raw_lines, SectionStart(raw_lines, "Meta-Data", 1))

\* the lines of the metadata section with the given key, up to the first
\* short line
MetaKeyLines(key) ==
    {i \in 1..(FirstShortLine(MetaLines) - 1) : Strip(MetaLines[i][1]) = key}

\* the stripped value of the last of the key lines K of lines, unset when
\* there is none
LastValue(lines, K) ==
    IF K = {} THEN None ELSE Some(Strip(lines[SetMax(K)][2]))

MetaValue(key) == LastValue(MetaLines, MetaKeyLines(key))
MissionValue(key) == LastValue(MissionLines, MissionKeyLines(key))

\* C14: each field of the metadata, and each field of a returned mission
\* record, is the value of the last line with its key among the lines from
\* the section marker up to the first line with fewer than 2 fields, and is
\* unset when no such line has the key: lines with other keys in between
\* neither change a field nor end the scan, and no line from the first
\* short line on is assigned
C14_ScanStopsAtShortLine ==
    /\ pc # "meta_data" =>
          Val(meta_data) =
             [source_file |-> MetaValue("Source file"),
              main_block |-> MetaValue("Main block"),
              tool_version |-> MetaValue("Tool version"),
              compiler_version |-> MetaValue("Compiler version")]
    /\ (MissionExtracted /\ ~IsNone(mission)) =>
          /\ Val(mission).nb_executions =
                (IF MissionKeyLines("Number of executions") = {} THEN None
                 ELSE Some(ToInt(Val(MissionValue("Number of executions")))))
          /\ Val(mission).seed =
                (IF MissionKeyLines("Seed") = {} THEN None
                 ELSE Some(ToInt(Val(MissionValue("Seed")))))
          /\ Val(mission).mission_time =
                (IF MissionKeyLines("Mission time") = {} THEN None
                 ELSE Some(ToFloat(Val(MissionValue("Mission time")))))
          /\ Val(mission).date_start = MissionValue("Started")
          /\ Val(mission).date_end = MissionValue("Completed")
          /\ IsNone(Val(mission).event_fired_stats) <=>
                MissionKeyLines(EventsKey) = {}

\* the lines of lines from the first short line on with the given key
LaterKeyLines(lines, key) ==
    {i \in FirstShortLine(lines)..Len(lines) :
        Len(lines[i]) >= 2 /\ Strip(lines[i][1]) = key}

\* a result whose metadata has the keys on both sides of a line with an
\* unknown key and not the key after the short line, and whose mission has
\* the key before the short line and not the keys after it
C14_Witness ==
    /\ pc = "done"
    /\ \E i \in MetaKeyLines("Source file"), k \in MetaKeyLines("Main block") :
          /\ i + 1 < k
          /\ Strip(MetaLines[i + 1][1]) = "Generated by"
    /\ Val(result).meta_data.source_file = Some("model.alt")
    /\ Val(result).meta_data.main_block = Some("BlockA")
    /\ LaterKeyLines(MetaLines, "Tool version") # {}
    /\ IsNone(Val(result).meta_data.tool_version)
    /\ Val(result).mission.date_start = Some("Mon")
    /\ LaterKeyLines(MissionLines, "Completed") # {}
    /\ LaterKeyLines(MissionLines, EventsKey) # {}
    /\ IsNone(Val(result).mission.date_end)
    /\ IsNone(Val(result).mission.event_fired_stats)

-----------------------------------------------------------------------------
(* Claims on the two phases of the indicator scan *)

\* C15 as stated: the lines phase 2 reads are those after the short line
\* that ended phase 1, and none when the definition rows run to the end of
\* the report; in that case the extraction returns every series empty.
C15_AsStated ==
    IndicatorsExtracted =>
       /\ IndicDataLines(raw_lines) =
             (IF DefEndLine = 0 THEN <<>> ELSE Drop(raw_lines, DefEndLine))
       /\ (DefEndLine = 0 /\ ~IsNone(mission)) =>
             /\ pc # "raised"
             /\ \A k \in 1..Len(Val(indicators)) :
                   Val(indicators)[k].data = <<>>

=============================================================================
